---- MODULE Spec2Model ----
(***************************************************************************)
(* Model of the diff highlighting of the changes app (src/xxx.go):         *)
(* fileDiff.Diff prints the hunks and hands the text to highlightDiff,     *)
(* which splits it into lines, scans the lines for replace blocks, appends *)
(* two background annotations per block, asks the character-level differ   *)
(* for intraline annotations, sorts all annotations and splices them into  *)
(* the text.                                                               *)
(*                                                                         *)
(* Bytes are one-character strings; NUL is the zero byte.  Offsets and     *)
(* line indices are 0-based as in the source; TLA+ sequences are 1-based,  *)
(* so line i of the source is lines[i + 1] and byte b is src[b + 1].       *)
(***************************************************************************)
EXTENDS Integers, Sequences, FiniteSets, TLC

\* Longest text the model enumerates.
MaxLen == 5

NUL == "NUL"
NL == "\n"
Nil == "nil"

\* The bytes a text is made of: the two markers, the hunk-header marker,
\* an ordinary byte (one that HTML escaping rewrites) and the line separator.
Bytes == {"+", "-", "@", "<", NL}

RECURSIVE SeqsOfLen(_)
SeqsOfLen(n) ==
    IF n = 0 THEN {<<>>}
    ELSE {Append(s, b) : s \in SeqsOfLen(n - 1), b \in Bytes}

\* Every text of at most MaxLen bytes.
Texts == UNION {SeqsOfLen(n) : n \in 0..MaxLen}

VARIABLES
    src,        \* the text given to highlightDiff (what PrintHunks returned)
    pc,         \* position in fileDiff.Diff / highlightDiff
    lines,      \* bytes.Split(src, "\n")
    lineStarts, \* lineStarts[i + 1] is the offset of line i
    lineIndex,  \* loop variable of the scan
    lastDel,    \* line of the open delete-run, -1 when unset
    lastIns,    \* line of the open insert-run, -1 when unset
    anns,       \* the annotation list
    calls,      \* the invocations of the character-level differ, in order
    out,        \* first result of highlightDiff
    err,        \* second result of highlightDiff
    html,       \* first result of fileDiff.Diff
    diffErr,    \* second result of fileDiff.Diff
    libErr,     \* the error the last external pass of highlightDiff reported
    buf,        \* what the splicer wrote: the bytes behind a non-nil out
    req,        \* the HTTP request handler.ServeHTTP was called with
    hpc,        \* position in handler.ServeHTTP and the handler it dispatched to
    target,     \* what ServeHTTP dispatched to, and with which arguments
    ret,        \* the error ServeHTTP returns
    filter,     \* result of stateFilter in ChangesHandler
    svc,        \* the calls made to the users and change services, in order
    wrote,      \* the response (header or body) was written to
    page,       \* what the page handler read and what it put into its state
    heap,       \* the request and URL objects stripPrefix works on, by address
    strip       \* a call of stripPrefix: its arguments, position and result

\* The state of the HTTP handler.
hvars == <<req, hpc, target, ret, filter, svc, wrote, page>>

\* The state of a call of stripPrefix.
svars == <<heap, strip>>

vars == <<src, pc, lines, lineStarts, lineIndex, lastDel, lastIns, anns,
          calls, out, err, html, diffErr, libErr, buf, hvars, svars>>

----------------------------------------------------------------------------
(* Pure helpers *)

\* bytes.Split(s, "\n"): the pieces between the separators; a text without
\* a separator (the empty text included) is one piece.
RECURSIVE Split(_)
Split(s) ==
    IF \A i \in 1..Len(s) : s[i] # NL THEN <<s>>
    ELSE LET p == CHOOSE i \in 1..Len(s) :
                      s[i] = NL /\ \A j \in 1..(i - 1) : s[j] # NL
         IN  <<SubSeq(s, 1, p - 1)>> \o Split(SubSeq(s, p + 1, Len(s)))

\* Mutant: the separator is not counted into the offset.
RECURSIVE StartsFrom_NoSeparator(_, _)
StartsFrom_NoSeparator(ls, offset) ==
    IF ls = <<>> THEN <<>>
    ELSE <<offset>> \o StartsFrom_NoSeparator(Tail(ls), offset + Len(Head(ls)))

\* The loop filling lineStarts: offset starts at 0 and grows by
\* len(line) + 1 after every line.
RECURSIVE StartsFrom(_, _)
StartsFrom(ls, offset) ==
    IF ls = <<>> THEN <<>>
    ELSE <<offset>> \o StartsFrom(Tail(ls), offset + Len(Head(ls)) + 1)

ComputeLineStarts(ls) == StartsFrom(ls, 0)

\* var lineFirstChar byte; set to the first byte of a non-empty line.
LineFirstChar(line) == IF Len(line) > 0 THEN line[1] ELSE NUL

\* What stands for a run-time panic (index or slice bounds out of range).
PANIC == "panic"

\* seq[i] of the source is in range.
IndexOK(seq, i) == 0 <= i /\ i < Len(seq)

\* Mutant: the slice starts after two bytes, lines[line][2:].
StripMarker_FromTwo(line) ==
    IF Len(line) < 2 THEN <<PANIC>> ELSE SubSeq(line, 3, Len(line))

\* lines[line][1:], which panics on a line of length 0.
StripMarker(line) ==
    IF Len(line) < 1 THEN <<PANIC>> ELSE SubSeq(line, 2, Len(line))

\* The content loops: for line := from; line < to; line++ the content grows
\* by "\x00" + lines[line][1:] + "\n".
RECURSIVE Content(_, _, _)
Content(ls, from, to) ==
    IF from >= to THEN <<>>
    ELSE <<NUL>> \o StripMarker(ls[from + 1]) \o <<NL>> \o Content(ls, from + 1, to)

----------------------------------------------------------------------------
(* Annotations *)

\* The Left markup of the two background annotations, and of the spans the
\* external differ returns (whatever it is, it is neither of the two).
GD == "<span class=\"gd input-block\">"
GI == "<span class=\"gi input-block\">"
SEG == "<span class=\"x\">"

\* &annotate.Annotation{Start: ..., End: ..., Left: ..., Right: `</span>`, WantInner: ...}
Annotation(start, end, left, wantInner) ==
    [Start |-> start, End |-> end, Left |-> left, WantInner |-> wantInner]

\* if lastDel == -1 { lastDel = lastIns } else if lastIns == -1 { lastIns = lineIndex }
CloseDel(ld, li, idx) == IF ld = -1 THEN li ELSE ld

\* Mutant: a pure delete-run gets its insert-run at the first delete line.
CloseIns_AtDelete(ld, li, idx) ==
    IF ld = -1 THEN li
    ELSE IF li = -1 THEN ld ELSE li

CloseIns(ld, li, idx) ==
    IF ld = -1 THEN li
    ELSE IF li = -1 THEN idx ELSE li

\* The four offsets of a block that closes at line idx with cursors d, i
\* (after the adjustment above).
\* Mutant: the delete range begins after the marker byte.
BeginOffsetLeft_AfterMarker(starts, d, i, idx) == starts[d + 1] + 1

BeginOffsetLeft(starts, d, i, idx) == starts[d + 1]
EndOffsetLeft(starts, d, i, idx) == starts[i + 1]
BeginOffsetRight(starts, d, i, idx) == starts[i + 1]

\* Mutant: the insert range runs to the end of the terminating line.
EndOffsetRight_PastTerminator(starts, d, i, idx) ==
    IF idx + 2 <= Len(starts) THEN starts[idx + 2] ELSE starts[idx + 1]

EndOffsetRight(starts, d, i, idx) == starts[idx + 1]

\* The two background annotations appended for a block.
Backgrounds(starts, d, i, idx) ==
    << Annotation(BeginOffsetLeft(starts, d, i, idx),
                  EndOffsetLeft(starts, d, i, idx), GD, 0),
       Annotation(BeginOffsetRight(starts, d, i, idx),
                  EndOffsetRight(starts, d, i, idx), GI, 0) >>

\* Mutant: the header test is dropped.
DifferInvoked_Always(lineFirstChar) == TRUE

\* Mutant: only an empty terminating line lets the differ run.
DifferInvoked_OnlyEmptyLine(lineFirstChar) == lineFirstChar = NUL

\* if '@' != lineFirstChar { ... HighlightedDiffFunc(...) ... }
DifferInvoked(lineFirstChar) == "@" # lineFirstChar

\* The spans a side of the differ's result is made of: any span inside the
\* content, shifted by the base offset.
Spans(content, base) ==
    { Annotation(base + p[1], base + p[2], SEG, 1) :
        p \in {q \in (0..Len(content)) \X (0..Len(content)) : q[1] < q[2]} }

\* What highlight_diff.HighlightedDiffFunc may put into one side of
\* sectionSegments: the differ is an external routine and highlightDiff
\* appends whatever it returns, so any list of at most two spans inside the
\* content, in start order, overlapping or not.
SectionSegments(content, base) ==
    {<<>>}
    \cup {<<s>> : s \in Spans(content, base)}
    \cup {<<p[1], p[2]>> :
            p \in {q \in Spans(content, base) \X Spans(content, base) :
                      q[1].Start < q[2].Start}}

\* One invocation of the differ, as recorded in calls.
Call(ls, starts, d, i, idx) ==
    [ leftContent  |-> Content(ls, d, i),
      rightContent |-> Content(ls, i, idx),
      offsets      |-> << BeginOffsetLeft(starts, d, i, idx),
                          BeginOffsetRight(starts, d, i, idx) >> ]

\* Closing a block at line idx with cursors d, i panics: one of the three
\* lineStarts reads is out of range, or a line of the two content loops is
\* too short for its slice.
Panics(ls, starts, d, i, idx, lineFirstChar) ==
    \/ ~IndexOK(starts, d)
    \/ ~IndexOK(starts, i)
    \/ ~IndexOK(starts, idx)
    \/ /\ DifferInvoked(lineFirstChar)
       /\ LET content == Content(ls, d, i) \o Content(ls, i, idx)
          IN  \E n \in 1..Len(content) : content[n] = PANIC

\* sort.Sort(anns) orders by the Less of the external annotate.Annotations:
\* Start ascending, then End descending, then WantInner ascending.
\* Mutant: ties on Start are left in append order.
AnnLess_StartOnly(a, b) == a.Start < b.Start

AnnLess(a, b) ==
    \/ a.Start < b.Start
    \/ a.Start = b.Start /\ a.End > b.End
    \/ a.Start = b.Start /\ a.End = b.End /\ a.WantInner < b.WantInner

RECURSIVE InsertSorted(_, _)
InsertSorted(sorted, a) ==
    IF sorted = <<>> THEN <<a>>
    ELSE IF AnnLess(a, Head(sorted)) THEN <<a>> \o sorted
    ELSE <<Head(sorted)>> \o InsertSorted(Tail(sorted), a)

\* sort.Sort(anns): the lists of the model are short, where sort.Sort is an
\* insertion sort.
RECURSIVE SortAnns(_)
SortAnns(as) ==
    IF as = <<>> THEN <<>>
    ELSE InsertSorted(SortAnns(SubSeq(as, 1, Len(as) - 1)), as[Len(as)])

----------------------------------------------------------------------------
(* Results *)

ErrPrintHunks == "ErrPrintHunks"
ErrAnnotate == "ErrAnnotate"
ErrSplice == "ErrSplice"
HTML == "html"

\* anns, err := highlight_diff.Annotate(src); if err != nil { return nil, err }
ReturnAnnotateErr(e) == [out |-> Nil, err |-> e]

\* Mutant: the splicer's buffer is returned along with its error.
ReturnSplice_Partial(o, e) == [out |-> o, err |-> e]

\* out, err := annotate.Annotate(...); if err != nil { return nil, err }; return out, nil
ReturnSplice(o, e) ==
    IF e # Nil THEN [out |-> Nil, err |-> e] ELSE [out |-> o, err |-> Nil]

\* diff, err := highlightDiff(hunks); if err != nil { return "", err }; return template.HTML(diff), nil
ReturnDiff(o, e) ==
    IF e # Nil THEN [html |-> "", err |-> e] ELSE [html |-> o, err |-> Nil]

----------------------------------------------------------------------------
(* The merger's validation and the splicer.  annotate.Annotate is not part  *)
(* of the sources; it is modelled from sections 3, 4.4, 4.5 and 7 of the    *)
(* specification.                                                           *)

RIGHT == "</span>"

\* template.HTMLEscape, the writeContent argument: one byte of text to the
\* bytes written for it.
HTMLEscape(b) ==
    CASE b = "<" -> "&lt;"
      [] b = ">" -> "&gt;"
      [] b = "&" -> "&amp;"
      [] b = "'" -> "&#39;"
      [] b = "\"" -> "&#34;"
      [] b = NUL -> "\\uFFFD"
      [] OTHER -> b

\* Boundary error: an annotation with start <= end inside the text.
InBounds(s, a) == 0 <= a.Start /\ a.Start <= a.End /\ a.End <= Len(s)

\* Invariant error: b starts inside a and ends after it.
Crosses(a, b) == a.Start < b.Start /\ b.Start < a.End /\ a.End < b.End

\* Mutant: only the bounds are validated.
ValidAnns_BoundsOnly(s, as) == \A k \in 1..Len(as) : InBounds(s, as[k])

ValidAnns(s, as) ==
    /\ \A k \in 1..Len(as) : InBounds(s, as[k])
    /\ \A k \in 1..Len(as) : \A j \in 1..Len(as) : ~Crosses(as[k], as[j])

\* The error the splicer reports for the list it is handed.
SpliceErr(s, as) == IF ValidAnns(s, as) THEN Nil ELSE ErrSplice

\* What is written: s is the bytes, a the annotation (its index in the
\* list handed over) whose markup it is, 0 for text.
OpenTok(as, k) == [s |-> as[k].Left, a |-> k]
CloseTok(as, k) == [s |-> RIGHT, a |-> k]
\* Mutant: text is copied without the escaping transform.
TextTok_Raw(b) == [s |-> b, a |-> 0]

TextTok(b) == [s |-> HTMLEscape(b), a |-> 0]

\* Mutant: the closing markup due at an offset is written first opened first.
RECURSIVE ClosesAt_OpeningOrder(_, _, _)
ClosesAt_OpeningOrder(as, o, k) ==
    IF k < 1 THEN <<>>
    ELSE ClosesAt_OpeningOrder(as, o, k - 1)
         \o (IF as[k].End = o /\ as[k].Start < o THEN <<CloseTok(as, k)>> ELSE <<>>)

\* The closing markup due at offset o, last opened first.
RECURSIVE ClosesAt(_, _, _)
ClosesAt(as, o, k) ==
    IF k < 1 THEN <<>>
    ELSE (IF as[k].End = o /\ as[k].Start < o THEN <<CloseTok(as, k)>> ELSE <<>>)
         \o ClosesAt(as, o, k - 1)

\* The opening markup due at offset o, in list order; an empty annotation
\* closes at once.
RECURSIVE OpensAt(_, _, _)
OpensAt(as, o, k) ==
    IF k > Len(as) THEN <<>>
    ELSE (IF as[k].Start = o
          THEN <<OpenTok(as, k)>>
               \o (IF as[k].End = o THEN <<CloseTok(as, k)>> ELSE <<>>)
          ELSE <<>>)
         \o OpensAt(as, o, k + 1)

\* The walk over the text from offset o on.
RECURSIVE SpliceFrom(_, _, _)
SpliceFrom(s, as, o) ==
    IF o > Len(s) THEN <<>>
    ELSE ClosesAt(as, o, Len(as))
         \o OpensAt(as, o, 1)
         \o (IF o < Len(s) THEN <<TextTok(s[o + 1])>> ELSE <<>>)
         \o SpliceFrom(s, as, o + 1)

SpliceOut(s, as) == SpliceFrom(s, as, 0)

----------------------------------------------------------------------------
(* The HTTP handler of the changes app (src/unnamed/part_001): package      *)
(* changes and its older copy, package changesapp.  A URL path is a         *)
(* sequence of tokens, "/" and the strings between the slashes, so that a   *)
(* string constant of the source is a fixed token sequence and the string   *)
(* operations of the source work on tokens as they do on bytes.             *)

\* Most elements a request path of the model has.
MaxSegs == 3

Slash == "/"

\* What stands between two slashes of a path.
Segments ==
    {"", "assets", "gfm", "script.js", "mock", "commits", "files",
     "7", "007", "18446744073709551616", "-7", "x"}

RECURSIVE SegSeqs(_)
SegSeqs(n) ==
    IF n = 0 THEN {<<>>}
    ELSE {Append(s, e) : s \in SegSeqs(n - 1), e \in Segments}

\* "/" + e1 + "/" + e2 + ...
RECURSIVE PathOf(_)
PathOf(segs) ==
    IF segs = <<>> THEN <<>>
    ELSE <<Slash>> \o (IF Head(segs) = "" THEN <<>> ELSE <<Head(segs)>>)
                   \o PathOf(Tail(segs))

\* The paths ServeHTTP is called with: the callers strip their mount prefix
\* and turn an empty rest into "/", so a path begins with a slash.
Paths == {PathOf(s) : s \in UNION {SegSeqs(n) : n \in 1..MaxSegs}}

Packages == {"changes", "changesapp"}

\* What req.Context().Value(key) may hold: a string, nothing, or a value of
\* another type.
CtxValues == {"string", "nil", "struct"}

\* _, ok := req.Context().Value(key).(string)
IsString(v) == v = "string"

\* Errors: their kind and what tells them apart.
Error(kind, detail) == [kind |-> kind, detail |-> detail]
NoError == Error("nil", "")
Pending == Error("pending", "")
ErrContextKey(key) == Error("error", key)
NotFound(detail) == Error("HTTP 404", detail)
MethodNotAllowed == Error("Method", "GET")
BadRequest(detail) == Error("BadRequest", detail)

\* Mutant: only the repo spec key is looked at.
ContextErr_RepoSpecOnly(repoSpec, baseURI) ==
    IF ~IsString(repoSpec) THEN ErrContextKey("RepoSpecContextKey") ELSE NoError

\* The two checks at the top of ServeHTTP.
ContextErr(repoSpec, baseURI) ==
    IF ~IsString(repoSpec) THEN ErrContextKey("RepoSpecContextKey")
    ELSE IF ~IsString(baseURI) THEN ErrContextKey("BaseURIContextKey")
    ELSE NoError

\* strings.HasPrefix
HasPrefix(s, prefix) ==
    Len(s) >= Len(prefix) /\ SubSeq(s, 1, Len(prefix)) = prefix

\* stripPrefix: the path without its first prefixLen bytes, "/" if that is empty.
stripPrefix(path, prefixLen) ==
    IF SubSeq(path, prefixLen + 1, Len(path)) = <<>> THEN <<Slash>>
    ELSE SubSeq(path, prefixLen + 1, Len(path))

\* strings.SplitN(s, "/", n) for n > 0: at most n pieces, the last one the
\* unsplit rest.
RECURSIVE SplitN(_, _)
SplitN(s, n) ==
    IF n <= 1 \/ \A i \in 1..Len(s) : s[i] # Slash THEN <<s>>
    ELSE LET p == CHOOSE i \in 1..Len(s) :
                      s[i] = Slash /\ \A j \in 1..(i - 1) : s[j] # Slash
         IN  <<SubSeq(s, 1, p - 1)>> \o SplitN(SubSeq(s, p + 1, Len(s)), n - 1)

\* Mutant: a sign is accepted, as strconv.ParseInt does.
ParseUint_Signed(e) ==
    IF Len(e) = 1 /\ e[1] \in {"7", "007"} THEN [val |-> "7", err |-> Nil]
    ELSE IF Len(e) = 1 /\ e[1] = "-7" THEN [val |-> "-7", err |-> Nil]
    ELSE IF Len(e) = 1 /\ e[1] = "18446744073709551616"
    THEN [val |-> "18446744073709551615", err |-> "ErrRange"]
    ELSE [val |-> "0", err |-> "ErrSyntax"]

\* strconv.ParseUint(e, 10, 64): the value in canonical decimal, or an error
\* for what is not a run of digits or does not fit 64 bits.
ParseUint(e) ==
    IF Len(e) = 1 /\ e[1] \in {"7", "007"} THEN [val |-> "7", err |-> Nil]
    ELSE IF Len(e) = 1 /\ e[1] = "18446744073709551616"
    THEN [val |-> "18446744073709551615", err |-> "ErrRange"]
    ELSE [val |-> "0", err |-> "ErrSyntax"]

\* What ServeHTTP hands the request to: a file server or a page handler,
\* the path of the request it passes, and the handler's further arguments.
Dispatch(name, path, changeID, commitID) ==
    [name |-> name, path |-> path, changeID |-> changeID, commitID |-> commitID]

NoTarget == Dispatch("none", <<>>, "", <<>>)

\* The routing of ServeHTTP after the context checks.  Package changesapp
\* names its list handler IssuesHandler and has no "/mock" route.
Route(pkg, path) ==
    IF HasPrefix(path, <<Slash, "assets", Slash, "gfm", Slash>>)
    THEN [target |-> Dispatch("gfmFileServer",
                              stripPrefix(path, Len(<<Slash, "assets", Slash, "gfm">>)),
                              "", <<>>),
          ret |-> Pending]
    ELSE IF path = <<Slash, "assets", Slash, "script.js">>
    THEN [target |-> Dispatch("assetsFileServer",
                              stripPrefix(path, Len(<<Slash, "assets">>)), "", <<>>),
          ret |-> Pending]
    ELSE IF HasPrefix(path, <<Slash, "assets", Slash>>)
    THEN [target |-> Dispatch("assetsFileServer", path, "", <<>>), ret |-> Pending]
    ELSE IF path = <<Slash>>
    THEN [target |-> Dispatch(IF pkg = "changes" THEN "ChangesHandler"
                              ELSE "IssuesHandler", path, "", <<>>),
          ret |-> Pending]
    ELSE IF pkg = "changes" /\ path = <<Slash, "mock">>
    THEN [target |-> Dispatch("MockHandler", path, "", <<>>), ret |-> Pending]
    ELSE LET elems == SplitN(Tail(path), 3)
             id == ParseUint(elems[1])
         IN  IF id.err # Nil
             THEN [target |-> NoTarget, ret |-> NotFound("invalid change ID")]
             ELSE IF Len(elems) = 1
             THEN [target |-> Dispatch("ChangeHandler", path, id.val, <<>>),
                   ret |-> Pending]
             ELSE IF Len(elems) = 2 /\ elems[2] = <<"commits">>
             THEN [target |-> Dispatch("ChangeCommitsHandler", path, id.val, <<>>),
                   ret |-> Pending]
             ELSE IF Len(elems) = 2 /\ elems[2] = <<"files">>
             THEN [target |-> Dispatch("ChangeFilesHandler", path, id.val, <<>>),
                   ret |-> Pending]
             ELSE IF Len(elems) = 3 /\ elems[2] = <<"files">>
             THEN [target |-> Dispatch("ChangeFilesHandler", path, id.val, elems[3]),
                   ret |-> Pending]
             ELSE [target |-> NoTarget, ret |-> NotFound("no route")]

Methods == {"GET", "POST"}

\* The values of the "state" key of the query, in order.
Queries ==
    {<<>>, <<"">>, <<"closed">>, <<"all">>, <<"open">>, <<"closed", "all">>,
     <<"open", "closed">>}

\* query.Get(stateQueryKey): the first value, "" when there is none.
Get(query) == IF query = <<>> THEN "" ELSE query[1]

FilterOpen == "FilterOpen"
FilterClosedMerged == "FilterClosedMerged"
FilterAll == "FilterAll"
NoFilter == [filter |-> "", err |-> "not evaluated"]

\* Mutant: an unsupported value selects the open filter.
stateFilter_DefaultOpen(query) ==
    CASE Get(query) = "closed" -> [filter |-> FilterClosedMerged, err |-> Nil]
      [] Get(query) = "all" -> [filter |-> FilterAll, err |-> Nil]
      [] OTHER -> [filter |-> FilterOpen, err |-> Nil]

stateFilter(query) ==
    CASE Get(query) = "" -> [filter |-> FilterOpen, err |-> Nil]
      [] Get(query) = "closed" -> [filter |-> FilterClosedMerged, err |-> Nil]
      [] Get(query) = "all" -> [filter |-> FilterAll, err |-> Nil]
      [] OTHER -> [filter |-> "", err |-> "unsupported state filter value"]

\* A call to the users or the change service.
ServiceCall(service, call, arg) == [service |-> service, call |-> call, arg |-> arg]
GetAuthenticated == ServiceCall("users", "GetAuthenticated", "")
List(f) == ServiceCall("change", "List", f)
Count(f) == ServiceCall("change", "Count", f)

\* What the services and the templates of one request answer: nil or an error.
Answers == {Nil, "err"}

\* A handler returns at the first error among the answers that end it, and
\* the answers after that one are never asked for: at most one of them is
\* an error.
OneFailure(o, ending) ==
    \A f \in ending, g \in ending : (o[f] # Nil /\ o[g] # Nil) => f = g

\* What ChangesHandler is answered; an error of the notification listing
\* is logged and does not end it.
Outcomes ==
    {o \in [bodyTop : Answers, auth : Answers, list : Answers, countOpen : Answers,
            countClosed : Answers, notes : Answers, tmpl : Answers] :
        OneFailure(o, {"bodyTop", "auth", "list", "countOpen", "countClosed", "tmpl"})}

\* handler.state: BodyTop, then the authenticated user unless there is no
\* users service.
state(usersNil, o) ==
    IF o.bodyTop # Nil THEN [err |-> Error("error", "BodyTop"), svc |-> <<>>]
    ELSE IF usersNil THEN [err |-> NoError, svc |-> <<>>]
    ELSE IF o.auth = Nil THEN [err |-> NoError, svc |-> <<GetAuthenticated>>]
    ELSE [err |-> Error("error", "h.us.GetAuthenticated"), svc |-> <<GetAuthenticated>>]

\* Mutant: POST is let through as well.
MethodIsGet_OrPost(method) == method \in {"GET", "POST"}

\* req.Method != http.MethodGet is the first test of every page handler.
MethodIsGet(method) == method = "GET"

\* What a page handler leaves behind: its result, the filter it parsed, the
\* service calls it made, whether it wrote to the response, and its state.
Page(r, f, calls_, w, p) ==
    [ret |-> r, filter |-> f, svc |-> calls_, wrote |-> w, page |-> p]

\* How the handler is set up and who asks: whether there is a users
\* service, the ID of the authenticated user (0 for none), whether
\* Options.Notifications is set, whether the change service has ThreadType.
Configs ==
    {c \in [usersNil : BOOLEAN, userID : {0, 7}, notifications : BOOLEAN,
            threadType : BOOLEAN] : c.usersNil => c.userID = 0}

\* state.CurrentUser.ID
CurrentUserID(c) == IF c.usersNil THEN 0 ELSE c.userID

\* Most entries a list page has.
MaxEntries == 2

\* Most notifications the notification service lists.
MaxNotes == 2

ChangeIDs == {1, 2}

\* component.ChangeEntry: the change (its ID) and the Unread flag.
Entries == [ID : ChangeIDs, Unread : BOOLEAN]

\* tt.ThreadType(s.RepoSpec)
ServiceThreadType == "Change"

\* notifications.Notification: the thread it is about, of the service's
\* thread type or another.
Notes == [ThreadType : {ServiceThreadType, "Issue"}, ThreadID : ChangeIDs]

RECURSIVE SeqsOver(_, _)
SeqsOver(S, n) ==
    IF n = 0 THEN {<<>>}
    ELSE {Append(s, e) : s \in SeqsOver(S, n - 1), e \in S}

SeqsUpTo(S, n) == UNION {SeqsOver(S, k) : k \in 0..n}

ThreadType == ServiceCall("change", "ThreadType", "")
ListNotes == ServiceCall("notifications", "List", "")

\* unreadThreads: the thread IDs of the listed notifications of the
\* service's thread type.
UnreadThreads(ns) ==
    {ns[n].ThreadID : n \in {m \in 1..Len(ns) : ns[m].ThreadType = ServiceThreadType}}

\* Mutant: the thread type of a notification is not compared.
MarkUnread_AnyThreadType(es, ns) ==
    [i \in 1..Len(es) |->
        [es[i] EXCEPT !.Unread = es[i].ID \in {ns[n].ThreadID : n \in 1..Len(ns)}]]

\* for i, e := range es { _, unread := unreadThreads[e.Change.ID]; es[i].Unread = unread }
MarkUnread(es, ns) ==
    [i \in 1..Len(es) |-> [es[i] EXCEPT !.Unread = es[i].ID \in UnreadThreads(ns)]]

\* state.augmentUnread of the package: the entries it returns and the calls
\* it makes.  Package changesapp returns at once without a notification
\* service; package changes is only called with one.
augmentUnread(pkg, c, es, listErr, ns) ==
    IF pkg = "changesapp" /\ ~c.notifications THEN [es |-> es, svc |-> <<>>]
    ELSE IF ~c.threadType THEN [es |-> es, svc |-> <<>>]
    ELSE IF CurrentUserID(c) = 0 THEN [es |-> es, svc |-> <<ThreadType>>]
    ELSE IF listErr # Nil THEN [es |-> es, svc |-> <<ThreadType, ListNotes>>]
    ELSE [es |-> MarkUnread(es, ns), svc |-> <<ThreadType, ListNotes>>]

\* es = append(es, component.ChangeEntry{Change: i, BaseURI: state.BaseURI})
EntriesOf(is) == [i \in 1..Len(is) |-> [ID |-> is[i], Unread |-> FALSE]]

\* What ChangesHandler keeps of a request: its setup, the changes listed,
\* the notifications listed and state.Changes.Entries.
ChangesState(c, is, ns, es) ==
    [handler |-> "ChangesHandler", config |-> c, listed |-> is, notes |-> ns,
     entries |-> es]

\* handler.ChangesHandler, from the method check to the template.
ChangesPage(method, query, c, o, is, ns) ==
    LET st == state(c.usersNil, o)
        f == stateFilter(query)
        s1 == st.svc \o <<List(f.filter)>>
        s2 == s1 \o <<Count(FilterOpen)>>
        s3 == s2 \o <<Count(FilterClosedMerged)>>
        au == IF c.notifications
              THEN augmentUnread("changes", c, EntriesOf(is), o.notes, ns)
              ELSE [es |-> EntriesOf(is), svc |-> <<>>]
        s4 == s3 \o au.svc
        none == ChangesState(c, <<>>, <<>>, <<>>)
        done == ChangesState(c, is, ns, au.es)
    IN  IF ~MethodIsGet(method) THEN Page(MethodNotAllowed, NoFilter, <<>>, FALSE, none)
        ELSE IF st.err # NoError THEN Page(st.err, NoFilter, st.svc, FALSE, none)
        ELSE IF f.err # Nil THEN Page(BadRequest(f.err), f, st.svc, FALSE, none)
        ELSE IF o.list # Nil THEN Page(Error("error", "List"), f, s1, FALSE, none)
        ELSE IF o.countOpen # Nil
        THEN Page(Error("error", "changes.Count(open)"), f, s2, FALSE, none)
        ELSE IF o.countClosed # Nil
        THEN Page(Error("error", "changes.Count(closed)"), f, s3, FALSE, none)
        ELSE IF o.tmpl # Nil
        THEN Page(Error("error", "h.static.ExecuteTemplate"), f, s4, TRUE, done)
        ELSE Page(NoError, f, s4, TRUE, done)

\* The entries matter once List has answered without error, the
\* notifications once they are listed.
ListsChanges(method, query, c, o) ==
    MethodIsGet(method) /\ state(c.usersNil, o).err = NoError
        /\ stateFilter(query).err = Nil /\ o.list = Nil

ListsNotes(method, query, c, o) ==
    ListsChanges(method, query, c, o) /\ o.countOpen = Nil /\ o.countClosed = Nil
        /\ c.notifications /\ c.threadType /\ CurrentUserID(c) # 0 /\ o.notes = Nil

\* The page handlers that take a change ID are modelled for package changes.

\* Most items a timeline has, most commits a change has.
MaxItems == 3

\* Instants of time.Time and IDs of timeline items.
Times == {0, 1}
ItemIDs == {1, 2}

\* timelineItem{item}: the item is one of the two types display.go knows.
ItemKinds == {"Comment", "Event"}
Items == [kind : ItemKinds, CreatedAt : Times, ID : ItemIDs]

\* What ListTimeline may return.
Timelines == SeqsUpTo(Items, MaxItems)

\* timelineItem.CreatedAt and timelineItem.ID: a type switch over the item.
CreatedAt(i) ==
    CASE i.kind = "Comment" -> i.CreatedAt
      [] i.kind = "Event" -> i.CreatedAt

ID(i) ==
    CASE i.kind = "Comment" -> i.ID
      [] i.kind = "Event" -> i.ID

\* time.Time.Equal and time.Time.Before on instants.
Equal(t, u) == t = u
Before(t, u) == t < u

\* Mutant: the tiebreak on ID is left out.
Less_NoTiebreak(a, b) == Before(CreatedAt(a), CreatedAt(b))

\* byCreatedAtID.Less
Less(a, b) ==
    IF Equal(CreatedAt(a), CreatedAt(b)) THEN ID(a) < ID(b)
    ELSE Before(CreatedAt(a), CreatedAt(b))

\* sort.Sort(byCreatedAtID(timeline)): on the short slices of the model
\* sort.Sort is an insertion sort, which moves an item left while it is
\* Less than its left neighbour.
RECURSIVE InsertItem(_, _)
InsertItem(sorted, a) ==
    IF sorted = <<>> THEN <<a>>
    ELSE IF Less(a, sorted[Len(sorted)])
         THEN Append(InsertItem(SubSeq(sorted, 1, Len(sorted) - 1), a),
                     sorted[Len(sorted)])
         ELSE Append(sorted, a)

RECURSIVE SortTimeline(_)
SortTimeline(ts) ==
    IF ts = <<>> THEN <<>>
    ELSE InsertItem(SortTimeline(SubSeq(ts, 1, Len(ts) - 1)), ts[Len(ts)])

Get_ == ServiceCall("change", "Get", "")
ListTimeline == ServiceCall("change", "ListTimeline", "")
MarkRead == ServiceCall("notifications", "MarkRead", "")

\* What the services and templates answer in ChangeHandler; an error of
\* MarkRead is logged and does not end it.
ChangeOutcomes ==
    {o \in [bodyTop : Answers, auth : Answers, get : Answers,
            listTimeline : Answers, markRead : Answers, loadTemplates : Answers,
            tmpl : Answers] :
        OneFailure(o, {"bodyTop", "auth", "get", "listTimeline", "loadTemplates",
                       "tmpl"})}

\* Mutant: the check of the user ID is left out.
markRead_AnyUser(c, o) ==
    IF ~c.threadType THEN [err |-> Nil, svc |-> <<>>]
    ELSE [err |-> o.markRead, svc |-> <<ThreadType, MarkRead>>]

\* state.markRead: nothing without ThreadType or for user 0, else MarkRead.
markRead(c, o) ==
    IF ~c.threadType THEN [err |-> Nil, svc |-> <<>>]
    ELSE IF CurrentUserID(c) = 0 THEN [err |-> Nil, svc |-> <<ThreadType>>]
    ELSE [err |-> o.markRead, svc |-> <<ThreadType, MarkRead>>]

\* What ChangeHandler keeps of a request: its setup, what ListTimeline
\* returned, the error of markRead (logged, not returned) and state.Timeline.
ChangeState(c, ts, markErr, timeline) ==
    [handler |-> "ChangeHandler", config |-> c, listed |-> ts,
     markReadErr |-> markErr, timeline |-> timeline]

Result(r, calls_, w, p) == [ret |-> r, svc |-> calls_, wrote |-> w, page |-> p]

\* handler.ChangeHandler, from the method check to the template.
ChangePage(method, c, o, ts) ==
    LET st == state(c.usersNil, o)
        s1 == st.svc \o <<Get_>>
        s2 == s1 \o <<ListTimeline>>
        mr == IF c.notifications THEN markRead(c, o) ELSE [err |-> Nil, svc |-> <<>>]
        s3 == s2 \o mr.svc
        done == ChangeState(c, ts, mr.err, SortTimeline(ts))
        none == ChangeState(c, <<>>, Nil, <<>>)
    IN  IF ~MethodIsGet(method) THEN Result(MethodNotAllowed, <<>>, FALSE, none)
        ELSE IF st.err # NoError THEN Result(st.err, st.svc, FALSE, none)
        ELSE IF o.get # Nil THEN Result(Error("error", "Get"), s1, FALSE, none)
        ELSE IF o.listTimeline # Nil
        THEN Result(Error("error", "changes.ListTimeline"), s2, FALSE, none)
        ELSE IF o.loadTemplates # Nil
        THEN Result(Error("error", "loadTemplates"), s3, FALSE, done)
        ELSE IF o.tmpl # Nil
        THEN Result(Error("error", "t.ExecuteTemplate"), s3, TRUE, done)
        ELSE Result(NoError, s3, TRUE, done)

\* The timeline matters once ListTimeline has answered without error.
ListsTimeline(method, c, o) ==
    MethodIsGet(method) /\ state(c.usersNil, o).err = NoError /\ o.get = Nil
        /\ o.listTimeline = Nil

\* What the service and the templates answer in MockHandler.
MockOutcomes ==
    {o \in [bodyTop : Answers, auth : Answers, loadTemplates : Answers,
            tmpl : Answers] :
        OneFailure(o, {"bodyTop", "auth", "loadTemplates", "tmpl"})}

\* handler.MockHandler, from the method check to the template.
MockPage(method, usersNil, o) ==
    LET st == state(usersNil, o)
        MockState == [handler |-> "MockHandler"]
    IN  IF ~MethodIsGet(method) THEN Result(MethodNotAllowed, <<>>, FALSE, MockState)
        ELSE IF st.err # NoError THEN Result(st.err, st.svc, FALSE, MockState)
        ELSE IF o.loadTemplates # Nil
        THEN Result(Error("error", "loadTemplates"), st.svc, FALSE, MockState)
        ELSE IF o.tmpl # Nil
        THEN Result(Error("error", "t.ExecuteTemplate"), st.svc, TRUE, MockState)
        ELSE Result(NoError, st.svc, TRUE, MockState)

\* A SHA is a string of tokens as a path is; the empty string is <<>>.
SHAs == {<<"x">>, <<"7">>}

\* change.Commit
Commits == [SHA : SHAs]

ListCommits == ServiceCall("change", "ListCommits", "")
GetDiff == ServiceCall("change", "GetDiff", "")

\* What the services, the templates and the writer answer in
\* ChangeCommitsHandler.
CommitsOutcomes ==
    {o \in [bodyTop : Answers, auth : Answers, get : Answers,
            listCommits : Answers, tmpl : Answers, render : Answers,
            write : Answers] :
        OneFailure(o, {"bodyTop", "auth", "get", "listCommits", "tmpl", "render",
                       "write"})}

CommitsState(cs) == [handler |-> "ChangeCommitsHandler", commits |-> cs]

\* handler.ChangeCommitsHandler, from the method check to the last write.
CommitsPage(method, usersNil, o, cs) ==
    LET st == state(usersNil, o)
        s1 == st.svc \o <<Get_>>
        s2 == s1 \o <<ListCommits>>
        none == CommitsState(<<>>)
        done == CommitsState(cs)
    IN  IF ~MethodIsGet(method) THEN Result(MethodNotAllowed, <<>>, FALSE, none)
        ELSE IF st.err # NoError THEN Result(st.err, st.svc, FALSE, none)
        ELSE IF o.get # Nil THEN Result(Error("error", "Get"), s1, FALSE, none)
        ELSE IF o.listCommits # Nil
        THEN Result(Error("error", "ListCommits"), s2, FALSE, none)
        ELSE IF o.tmpl # Nil
        THEN Result(Error("error", "h.static.ExecuteTemplate"), s2, TRUE, done)
        ELSE IF o.render # Nil
        THEN Result(Error("error", "htmlg.RenderComponents"), s2, TRUE, done)
        ELSE IF o.write # Nil
        THEN Result(Error("error", "io.WriteString"), s2, TRUE, done)
        ELSE Result(NoError, s2, TRUE, done)

\* The commits matter once ListCommits has answered without error.
ListsCommits(method, usersNil, o) ==
    MethodIsGet(method) /\ state(usersNil, o).err = NoError /\ o.get = Nil
        /\ o.listCommits = Nil

\* os.ErrNotExist
ErrNotExist == Error("os.ErrNotExist", "file does not exist")

\* Mutant: the last commit with the SHA is taken.
commitIndex_Last(cs, commitID) ==
    IF \E i \in 1..Len(cs) : cs[i].SHA = commitID
    THEN (CHOOSE i \in 1..Len(cs) :
              cs[i].SHA = commitID /\ \A j \in (i + 1)..Len(cs) : cs[j].SHA # commitID) - 1
    ELSE -1

\* commitIndex: the 0-based index of the first commit whose SHA is commitID,
\* or -1.
commitIndex(cs, commitID) ==
    IF \E i \in 1..Len(cs) : cs[i].SHA = commitID
    THEN (CHOOSE i \in 1..Len(cs) :
              cs[i].SHA = commitID /\ \A j \in 1..(i - 1) : cs[j].SHA # commitID) - 1
    ELSE -1

\* if prev := i - 1; prev >= 0 { commit.PrevSHA = cs[prev].SHA }
PrevSHA(cs, i) == IF i - 1 >= 0 THEN cs[(i - 1) + 1].SHA ELSE <<>>

\* if next := i + 1; next < len(cs) { commit.NextSHA = cs[next].SHA }
NextSHA(cs, i) == IF i + 1 < Len(cs) THEN cs[(i + 1) + 1].SHA ELSE <<>>

\* What the services, the parser, the templates and the writer answer in
\* ChangeFilesHandler.
FilesOutcomes ==
    {o \in [bodyTop : Answers, auth : Answers, get : Answers,
            listCommits : Answers, getDiff : Answers, parse : Answers,
            tmpl : Answers, commitTmpl : Answers, fileTmpl : Answers,
            write : Answers] :
        OneFailure(o, {"bodyTop", "auth", "get", "listCommits", "getDiff", "parse",
                       "tmpl", "commitTmpl", "fileTmpl", "write"})}

\* What ChangeFilesHandler keeps of a request: the commits listed, the
\* index commitIndex returned, commit.CommitHash, state.PrevSHA,
\* state.NextSHA and the commit of the GetDiff options.
FilesState(cs, i, hash, prev, next, opt) ==
    [handler |-> "ChangeFilesHandler", commits |-> cs, index |-> i,
     CommitHash |-> hash, PrevSHA |-> prev, NextSHA |-> next, opt |-> opt]

\* handler.ChangeFilesHandler, from the method check to the last write.
FilesPage(method, usersNil, commitID, o, cs) ==
    LET st == state(usersNil, o)
        single == commitID # <<>>
        s1 == st.svc \o <<Get_>>
        s2 == IF single THEN s1 \o <<ListCommits>> ELSE s1
        s3 == s2 \o <<GetDiff>>
        i == commitIndex(cs, commitID)
        none == FilesState(<<>>, -1, <<>>, <<>>, <<>>, <<>>)
        missing == FilesState(cs, -1, <<>>, <<>>, <<>>, <<>>)
        done == IF single
                THEN FilesState(cs, i, cs[i + 1].SHA, PrevSHA(cs, i), NextSHA(cs, i),
                                commitID)
                ELSE none
    IN  IF ~MethodIsGet(method) THEN Result(MethodNotAllowed, <<>>, FALSE, none)
        ELSE IF st.err # NoError THEN Result(st.err, st.svc, FALSE, none)
        ELSE IF o.get # Nil THEN Result(Error("error", "Get"), s1, FALSE, none)
        ELSE IF single /\ o.listCommits # Nil
        THEN Result(Error("error", "ListCommits"), s2, FALSE, none)
        ELSE IF single /\ i = -1 THEN Result(ErrNotExist, s2, FALSE, missing)
        ELSE IF o.getDiff # Nil THEN Result(Error("error", "GetDiff"), s3, FALSE, done)
        ELSE IF o.parse # Nil
        THEN Result(Error("error", "diff.ParseMultiFileDiff"), s3, FALSE, done)
        ELSE IF o.tmpl # Nil
        THEN Result(Error("error", "h.static.ExecuteTemplate"), s3, TRUE, done)
        ELSE IF single /\ o.commitTmpl # Nil
        THEN Result(Error("error", "CommitMessage"), s3, TRUE, done)
        ELSE IF o.fileTmpl # Nil THEN Result(Error("error", "FileDiff"), s3, TRUE, done)
        ELSE IF o.write # Nil
        THEN Result(Error("error", "io.WriteString"), s3, TRUE, done)
        ELSE Result(NoError, s3, TRUE, done)

\* The page handler has not run.
NoPage == [handler |-> "none"]

\* No request has arrived.
NoRequest ==
    [pkg |-> "", repoSpec |-> "nil", baseURI |-> "nil", path |-> <<>>,
     method |-> "", query |-> <<>>]

HTTPIdle ==
    /\ req = NoRequest
    /\ target = NoTarget
    /\ ret = Pending
    /\ filter = NoFilter
    /\ svc = <<>>
    /\ wrote = FALSE
    /\ page = NoPage

\* No call of stripPrefix is under way.
NoStrip == [pc |-> "off", r |-> "", prefixLen |-> 0, path |-> <<>>, r2 |-> ""]
StripIdle == heap = <<>> /\ strip = NoStrip

----------------------------------------------------------------------------
(* The state machine *)

Init ==
    /\ src \in Texts
    /\ pc = "PrintHunks"
    /\ lines = <<>>
    /\ lineStarts = <<>>
    /\ lineIndex = 0
    /\ lastDel = -1
    /\ lastIns = -1
    /\ anns = <<>>
    /\ calls = <<>>
    /\ out = Nil
    /\ err = Nil
    /\ html = ""
    /\ diffErr = Nil
    /\ libErr = Nil
    /\ buf = <<>>
    /\ hpc = "off"
    /\ HTTPIdle
    /\ StripIdle

\* fileDiff.Diff: hunks, err := diff.PrintHunks(f.Hunks)
PrintHunks ==
    /\ pc = "PrintHunks"
    /\ \E e \in {Nil, ErrPrintHunks} :
          IF e # Nil
          THEN /\ html' = ""
               /\ diffErr' = e
               /\ pc' = "done"
          ELSE /\ pc' = "highlightDiff"
               /\ UNCHANGED <<html, diffErr>>
    /\ UNCHANGED <<src, lines, lineStarts, lineIndex, lastDel, lastIns, anns,
                   calls, out, err, libErr>>
    /\ UNCHANGED buf
    /\ UNCHANGED hvars
    /\ UNCHANGED svars

\* highlightDiff up to the scan: the initial annotation pass, the split
\* into lines and the line offsets.
AnnotateAndSplit ==
    /\ pc = "highlightDiff"
    /\ \E e \in {Nil, ErrAnnotate} :
          /\ libErr' = e
          /\ IF e # Nil
             THEN /\ out' = ReturnAnnotateErr(e).out
                  /\ err' = ReturnAnnotateErr(e).err
                  /\ pc' = "return"
                  /\ UNCHANGED <<lines, lineStarts, lineIndex, lastDel, lastIns, anns>>
             ELSE /\ anns' = <<>>
                  /\ lines' = Split(src)
                  /\ lineStarts' = ComputeLineStarts(Split(src))
                  /\ lastDel' = -1
                  /\ lastIns' = -1
                  /\ lineIndex' = 0
                  /\ pc' = "scan"
                  /\ UNCHANGED <<out, err>>
    /\ UNCHANGED <<src, calls, html, diffErr>>
    /\ UNCHANGED buf
    /\ UNCHANGED hvars
    /\ UNCHANGED svars

InScan == pc = "scan" /\ lineIndex < Len(lines)

\* case '+'
ScanInsert ==
    /\ InScan
    /\ LineFirstChar(lines[lineIndex + 1]) = "+"
    /\ lastIns' = IF lastIns = -1 THEN lineIndex ELSE lastIns
    /\ lineIndex' = lineIndex + 1
    /\ UNCHANGED <<src, pc, lines, lineStarts, lastDel, anns, calls, out, err,
                   html, diffErr, libErr>>
    /\ UNCHANGED buf
    /\ UNCHANGED hvars
    /\ UNCHANGED svars

\* case '-'
ScanDelete ==
    /\ InScan
    /\ LineFirstChar(lines[lineIndex + 1]) = "-"
    /\ lastDel' = IF lastDel = -1 THEN lineIndex ELSE lastDel
    /\ lineIndex' = lineIndex + 1
    /\ UNCHANGED <<src, pc, lines, lineStarts, lastIns, anns, calls, out, err,
                   html, diffErr, libErr>>
    /\ UNCHANGED buf
    /\ UNCHANGED hvars
    /\ UNCHANGED svars

\* default: close the open block, if any, and reset the cursors.
ScanDefault ==
    /\ InScan
    /\ LineFirstChar(lines[lineIndex + 1]) \notin {"+", "-"}
    /\ LET d == CloseDel(lastDel, lastIns, lineIndex)
           i == CloseIns(lastDel, lastIns, lineIndex)
           fc == LineFirstChar(lines[lineIndex + 1])
       IN  IF (lastDel # -1 \/ lastIns # -1)
              /\ Panics(lines, lineStarts, d, i, lineIndex, fc)
           THEN /\ pc' = "panic"
                /\ UNCHANGED <<anns, calls, lastDel, lastIns, lineIndex>>
           ELSE /\ IF lastDel # -1 \/ lastIns # -1
                   THEN LET c == Call(lines, lineStarts, d, i, lineIndex)
                        IN  IF DifferInvoked(fc)
                            THEN /\ \E s0 \in SectionSegments(c.leftContent, c.offsets[1]),
                                       s1 \in SectionSegments(c.rightContent, c.offsets[2]) :
                                       anns' = anns \o Backgrounds(lineStarts, d, i, lineIndex)
                                                    \o s0 \o s1
                                 /\ calls' = Append(calls, c)
                            ELSE /\ anns' = anns \o Backgrounds(lineStarts, d, i, lineIndex)
                                 /\ UNCHANGED calls
                   ELSE UNCHANGED <<anns, calls>>
                /\ lastDel' = -1
                /\ lastIns' = -1
                /\ lineIndex' = lineIndex + 1
                /\ UNCHANGED pc
    /\ UNCHANGED <<src, lines, lineStarts, out, err, html, diffErr, libErr>>
    /\ UNCHANGED buf
    /\ UNCHANGED hvars
    /\ UNCHANGED svars

\* The loop ends when lineIndex reaches len(lines); then sort.Sort(anns).
SortStep ==
    /\ pc = "scan"
    /\ lineIndex >= Len(lines)
    /\ anns' = SortAnns(anns)
    /\ pc' = "splice"
    /\ UNCHANGED <<src, lines, lineStarts, lineIndex, lastDel, lastIns, calls,
                   out, err, html, diffErr, libErr>>
    /\ UNCHANGED buf
    /\ UNCHANGED hvars
    /\ UNCHANGED svars

\* out, err := annotate.Annotate(src, anns, template.HTMLEscape) and the
\* return of highlightDiff.  The splicer hands back its buffer with or
\* without an error.
Splice ==
    /\ pc = "splice"
    /\ buf' = SpliceOut(src, anns)
    /\ libErr' = SpliceErr(src, anns)
    /\ out' = ReturnSplice(HTML, SpliceErr(src, anns)).out
    /\ err' = ReturnSplice(HTML, SpliceErr(src, anns)).err
    /\ pc' = "return"
    /\ UNCHANGED <<src, lines, lineStarts, lineIndex, lastDel, lastIns, anns,
                   calls, html, diffErr>>
    /\ UNCHANGED hvars
    /\ UNCHANGED svars

\* fileDiff.Diff after highlightDiff returned.
DiffReturn ==
    /\ pc = "return"
    /\ html' = ReturnDiff(out, err).html
    /\ diffErr' = ReturnDiff(out, err).err
    /\ pc' = "done"
    /\ UNCHANGED <<src, lines, lineStarts, lineIndex, lastDel, lastIns, anns,
                   calls, out, err, libErr>>
    /\ UNCHANGED buf
    /\ UNCHANGED hvars
    /\ UNCHANGED svars

Next ==
    \/ PrintHunks
    \/ AnnotateAndSplit
    \/ ScanInsert
    \/ ScanDelete
    \/ ScanDefault
    \/ SortStep
    \/ Splice
    \/ DiffReturn

Spec == Init /\ [][Next]_vars

----------------------------------------------------------------------------
(* The HTTP handler as a state machine: one request from ServeHTTP to the   *)
(* return of the handler it was dispatched to.                              *)

InitHTTP ==
    /\ src = <<>>
    /\ pc = "done"
    /\ lines = <<>>
    /\ lineStarts = <<>>
    /\ lineIndex = 0
    /\ lastDel = -1
    /\ lastIns = -1
    /\ anns = <<>>
    /\ calls = <<>>
    /\ out = Nil
    /\ err = Nil
    /\ html = ""
    /\ diffErr = Nil
    /\ libErr = Nil
    /\ buf = <<>>
    /\ hpc = "idle"
    /\ HTTPIdle
    /\ StripIdle

hlvars == <<src, pc, lines, lineStarts, lineIndex, lastDel, lastIns, anns,
            calls, out, err, html, diffErr, libErr, buf>>

\* handler.ServeHTTP up to the dispatch: the two context checks, then the
\* routing.  The method and the query are read by the page handlers.
ServeHTTP ==
    /\ hpc = "idle"
    /\ \E pkg \in Packages, repoSpec \in CtxValues, baseURI \in CtxValues,
          path \in Paths :
          /\ req' = [NoRequest EXCEPT !.pkg = pkg, !.repoSpec = repoSpec,
                                      !.baseURI = baseURI, !.path = path]
          /\ IF ContextErr(repoSpec, baseURI) # NoError
             THEN /\ ret' = ContextErr(repoSpec, baseURI)
                  /\ target' = NoTarget
                  /\ hpc' = "done"
             ELSE /\ ret' = Route(pkg, path).ret
                  /\ target' = Route(pkg, path).target
                  /\ hpc' = IF Route(pkg, path).target = NoTarget THEN "done"
                            ELSE Route(pkg, path).target.name
    /\ UNCHANGED <<filter, svc, wrote, page>>
    /\ UNCHANGED hlvars
    /\ UNCHANGED svars

\* h.gfmFileServer.ServeHTTP(w, req) or h.assetsFileServer.ServeHTTP(w, req);
\* return nil.
FileServer ==
    /\ hpc \in {"gfmFileServer", "assetsFileServer"}
    /\ wrote' = TRUE
    /\ ret' = NoError
    /\ hpc' = "done"
    /\ UNCHANGED <<req, target, filter, svc, page>>
    /\ UNCHANGED hlvars
    /\ UNCHANGED svars

\* return h.ChangesHandler(w, req)
ChangesHandler ==
    /\ hpc = "ChangesHandler"
    /\ \E method \in Methods, query \in Queries, c \in Configs, o \in Outcomes :
          \E is \in (IF ListsChanges(method, query, c, o)
                     THEN SeqsUpTo(ChangeIDs, MaxEntries) ELSE {<<>>}) :
              \E ns \in (IF ListsNotes(method, query, c, o)
                         THEN SeqsUpTo(Notes, MaxNotes) ELSE {<<>>}) :
                  /\ req' = [req EXCEPT !.method = method, !.query = query]
                  /\ ret' = ChangesPage(method, query, c, o, is, ns).ret
                  /\ filter' = ChangesPage(method, query, c, o, is, ns).filter
                  /\ svc' = ChangesPage(method, query, c, o, is, ns).svc
                  /\ wrote' = ChangesPage(method, query, c, o, is, ns).wrote
                  /\ page' = ChangesPage(method, query, c, o, is, ns).page
    /\ hpc' = "done"
    /\ UNCHANGED target
    /\ UNCHANGED hlvars
    /\ UNCHANGED svars

\* return h.ChangeHandler(w, req, changeID)
ChangeHandler ==
    /\ hpc = "ChangeHandler"
    /\ req.pkg = "changes"
    /\ \E method \in Methods, c \in Configs, o \in ChangeOutcomes :
          \E ts \in (IF ListsTimeline(method, c, o) THEN Timelines ELSE {<<>>}) :
              /\ req' = [req EXCEPT !.method = method]
              /\ ret' = ChangePage(method, c, o, ts).ret
              /\ svc' = ChangePage(method, c, o, ts).svc
              /\ wrote' = ChangePage(method, c, o, ts).wrote
              /\ page' = ChangePage(method, c, o, ts).page
    /\ hpc' = "done"
    /\ UNCHANGED <<target, filter>>
    /\ UNCHANGED hlvars
    /\ UNCHANGED svars

\* return h.MockHandler(w, req)
MockHandler ==
    /\ hpc = "MockHandler"
    /\ \E method \in Methods, usersNil \in BOOLEAN, o \in MockOutcomes :
          /\ req' = [req EXCEPT !.method = method]
          /\ ret' = MockPage(method, usersNil, o).ret
          /\ svc' = MockPage(method, usersNil, o).svc
          /\ wrote' = MockPage(method, usersNil, o).wrote
          /\ page' = MockPage(method, usersNil, o).page
    /\ hpc' = "done"
    /\ UNCHANGED <<target, filter>>
    /\ UNCHANGED hlvars
    /\ UNCHANGED svars

\* return h.ChangeCommitsHandler(w, req, changeID)
ChangeCommitsHandler ==
    /\ hpc = "ChangeCommitsHandler"
    /\ req.pkg = "changes"
    /\ \E method \in Methods, usersNil \in BOOLEAN, o \in CommitsOutcomes :
          \E cs \in (IF ListsCommits(method, usersNil, o)
                     THEN SeqsUpTo(Commits, MaxItems) ELSE {<<>>}) :
              /\ req' = [req EXCEPT !.method = method]
              /\ ret' = CommitsPage(method, usersNil, o, cs).ret
              /\ svc' = CommitsPage(method, usersNil, o, cs).svc
              /\ wrote' = CommitsPage(method, usersNil, o, cs).wrote
              /\ page' = CommitsPage(method, usersNil, o, cs).page
    /\ hpc' = "done"
    /\ UNCHANGED <<target, filter>>
    /\ UNCHANGED hlvars
    /\ UNCHANGED svars

\* return h.ChangeFilesHandler(w, req, changeID, commitID)
ChangeFilesHandler ==
    /\ hpc = "ChangeFilesHandler"
    /\ req.pkg = "changes"
    /\ \E method \in Methods, usersNil \in BOOLEAN, o \in FilesOutcomes :
          \E cs \in (IF ListsCommits(method, usersNil, o) /\ target.commitID # <<>>
                     THEN SeqsUpTo(Commits, MaxItems) ELSE {<<>>}) :
              /\ req' = [req EXCEPT !.method = method]
              /\ ret' = FilesPage(method, usersNil, target.commitID, o, cs).ret
              /\ svc' = FilesPage(method, usersNil, target.commitID, o, cs).svc
              /\ wrote' = FilesPage(method, usersNil, target.commitID, o, cs).wrote
              /\ page' = FilesPage(method, usersNil, target.commitID, o, cs).page
    /\ hpc' = "done"
    /\ UNCHANGED <<target, filter>>
    /\ UNCHANGED hlvars
    /\ UNCHANGED svars

NextHTTP ==
    \/ ServeHTTP
    \/ FileServer
    \/ ChangesHandler
    \/ ChangeHandler
    \/ MockHandler
    \/ ChangeCommitsHandler
    \/ ChangeFilesHandler

SpecHTTP == InitHTTP /\ [][NextHTTP]_vars

----------------------------------------------------------------------------
(* stripPrefix on the objects it works on.  A request object holds the      *)
(* address of its URL object; the heap maps addresses to objects.           *)

\* Longest path stripPrefix is called with.
MaxPathLen == 4

PathBytes == {"/", "a", "b"}

RECURSIVE PathsOfLen(_)
PathsOfLen(n) ==
    IF n = 0 THEN {<<>>}
    ELSE {Append(s, b) : s \in PathsOfLen(n - 1), b \in PathBytes}

StripPaths == UNION {PathsOfLen(n) : n \in 0..MaxPathLen}

\* The request r and its URL before the call.
RequestAt(u) == [Method |-> "GET", URL |-> u]
URLAt(path) == [Path |-> path, RawQuery |-> "state=all"]
HeapOf(path) == ("r" :> RequestAt("u")) @@ ("u" :> URLAt(path))

\* Mutant: r2 keeps the URL object it copied from r.
stripPrefixHeap_SharedURL(h, r, prefixLen) ==
    LET h1 == ("r2" :> h[r]) @@ h
        path == h[h[r].URL].Path
    IN  IF prefixLen > Len(path) THEN [heap |-> h1, r2 |-> "", panic |-> TRUE]
        ELSE [heap |-> [h1 EXCEPT ![h1["r2"].URL].Path = stripPrefix(path, prefixLen)],
              r2 |-> "r2", panic |-> FALSE]

\* stripPrefix: r2 := new(http.Request); *r2 = *r; r2.URL = new(url.URL);
\* *r2.URL = *r.URL; r2.URL.Path = r.URL.Path[prefixLen:], "/" if empty.
\* The slice panics when prefixLen is longer than the path.
stripPrefixHeap(h, r, prefixLen) ==
    LET h1 == ("r2" :> h[r]) @@ h
        h2 == ("u2" :> h1[h1[r].URL]) @@ [h1 EXCEPT !["r2"].URL = "u2"]
        path == h2[h2[r].URL].Path
    IN  IF prefixLen > Len(path) THEN [heap |-> h2, r2 |-> "", panic |-> TRUE]
        ELSE [heap |-> [h2 EXCEPT ![h2["r2"].URL].Path = stripPrefix(path, prefixLen)],
              r2 |-> "r2", panic |-> FALSE]

InitStrip ==
    /\ src = <<>>
    /\ pc = "done"
    /\ lines = <<>>
    /\ lineStarts = <<>>
    /\ lineIndex = 0
    /\ lastDel = -1
    /\ lastIns = -1
    /\ anns = <<>>
    /\ calls = <<>>
    /\ out = Nil
    /\ err = Nil
    /\ html = ""
    /\ diffErr = Nil
    /\ libErr = Nil
    /\ buf = <<>>
    /\ hpc = "off"
    /\ HTTPIdle
    /\ strip \in {[NoStrip EXCEPT !.pc = "call", !.r = "r", !.prefixLen = n, !.path = p] :
                    n \in 0..(MaxPathLen + 1), p \in StripPaths}
    /\ heap = HeapOf(strip.path)

\* One call of stripPrefix, from entry to return or panic.
StripPrefix ==
    /\ strip.pc = "call"
    /\ heap' = stripPrefixHeap(heap, strip.r, strip.prefixLen).heap
    /\ strip' = [strip EXCEPT
                    !.pc = IF stripPrefixHeap(heap, strip.r, strip.prefixLen).panic
                           THEN "panic" ELSE "returned",
                    !.r2 = stripPrefixHeap(heap, strip.r, strip.prefixLen).r2]
    /\ UNCHANGED hlvars
    /\ UNCHANGED hvars

NextStrip == StripPrefix

SpecStrip == InitStrip /\ [][NextStrip]_vars

(***************************************************************************)
(* augmentUnread on entries of any kind, for both packages.                 *)
(***************************************************************************)

\* The calls of augmentUnread: the package, the setup, the entries, the
\* answer of the notification listing and the notifications listed.
\* ChangesHandler of package changes calls it only with a notification
\* service.
UnreadCalls ==
    {[handler |-> "augmentUnread", pkg |-> k, config |-> c, es |-> es,
      listErr |-> e, ns |-> ns, out |-> <<>>] :
        k \in Packages, c \in Configs, es \in SeqsUpTo(Entries, MaxEntries),
        e \in Answers, ns \in SeqsUpTo(Notes, MaxNotes)}

InitUnread ==
    /\ src = <<>>
    /\ pc = "done"
    /\ lines = <<>>
    /\ lineStarts = <<>>
    /\ lineIndex = 0
    /\ lastDel = -1
    /\ lastIns = -1
    /\ anns = <<>>
    /\ calls = <<>>
    /\ out = Nil
    /\ err = Nil
    /\ html = ""
    /\ diffErr = Nil
    /\ libErr = Nil
    /\ buf = <<>>
    /\ hpc = "augmentUnread"
    /\ req = NoRequest
    /\ target = NoTarget
    /\ ret = Pending
    /\ filter = NoFilter
    /\ svc = <<>>
    /\ wrote = FALSE
    /\ page \in {u \in UnreadCalls : u.pkg = "changes" => u.config.notifications}
    /\ StripIdle

\* One call of augmentUnread, from entry to return.
AugmentUnread ==
    /\ hpc = "augmentUnread"
    /\ page' = [page EXCEPT !.out =
                   augmentUnread(page.pkg, page.config, page.es, page.listErr,
                                 page.ns).es]
    /\ svc' = augmentUnread(page.pkg, page.config, page.es, page.listErr,
                            page.ns).svc
    /\ hpc' = "done"
    /\ UNCHANGED <<req, target, ret, filter, wrote>>
    /\ UNCHANGED hlvars
    /\ UNCHANGED svars

NextUnread == AugmentUnread

SpecUnread == InitUnread /\ [][NextUnread]_vars

----------------------------------------------------------------------------
(* The text as the claims read it: lines and markers taken from the bytes   *)
(* of src, not from the scan's own tables.                                  *)

\* b is the offset of a line: the start of the text or the byte after a
\* line separator (the offset past a final separator is the empty last line).
IsLineStart(b) == b = 0 \/ src[b] = NL

LineStartSet == {b \in 0..Len(src) : IsLineStart(b)}

\* First byte of the line at b, NUL for an empty line.
FirstByte(b) == IF b < Len(src) /\ src[b + 1] # NL THEN src[b + 1] ELSE NUL

IsMarked(b) == FirstByte(b) \in {"+", "-"}

\* The offset after the line at b, its separator included.
LineLimit(b) ==
    IF \E c \in LineStartSet : c > b
    THEN CHOOSE c \in LineStartSet : c > b /\ \A e \in LineStartSet : e > b => c <= e
    ELSE Len(src)

\* The line an offset of the text lies in.
LineOf(o) == CHOOSE b \in LineStartSet : b <= o /\ \A c \in LineStartSet : c <= o => c <= b

\* The scan is in progress or over, and anns is still in append order.
Scanning == pc = "scan"
ScanFinished == pc = "scan" /\ lineIndex >= Len(lines)

\* An emitted block is a delete-background annotation and the
\* insert-background annotation appended right after it.
Blocks == {k \in 1..(Len(anns) - 1) : anns[k].Left = GD /\ anns[k + 1].Left = GI}

BackgroundAnns == {k \in 1..Len(anns) : anns[k].Left \in {GD, GI}}

Covers(a, o) == a.Start <= o /\ o < a.End

LineInside(a, b) == Covers(a, b) /\ LineLimit(b) <= a.End

LineInBlock(b, k) == LineInside(anns[k], b) \/ LineInside(anns[k + 1], b)

\* The first byte of the line that terminated block k.
TermByte(k) == FirstByte(anns[k + 1].End)

\* The differ invocations made for block k.
CallsFor(k) ==
    {j \in 1..Len(calls) : calls[j].offsets = <<anns[k].Start, anns[k + 1].Start>>}

----------------------------------------------------------------------------
(* Claims *)

\* C1: block partition. When the scan is over, every line whose first byte
\* is '-' or '+' lies inside the background range of exactly one emitted
\* block and every other line lies inside none.
C1_BlockPartition ==
    ScanFinished =>
        \A b \in LineStartSet :
            Cardinality({k \in Blocks : LineInBlock(b, k)})
                = (IF IsMarked(b) THEN 1 ELSE 0)

\* C2: within every emitted block the delete-background annotation covers
\* only lines starting with '-' and the insert-background annotation covers
\* only lines starting with '+'.
C2_DeletesBeforeInserts ==
    Scanning =>
        \A k \in Blocks : \A o \in 0..(Len(src) - 1) :
            /\ Covers(anns[k], o) => FirstByte(LineOf(o)) = "-"
            /\ Covers(anns[k + 1], o) => FirstByte(LineOf(o)) = "+"

\* C3: every background annotation satisfies 0 <= Start <= End <= len(Text).
C3_BackgroundBounds ==
    \A k \in BackgroundAnns :
        /\ 0 <= anns[k].Start
        /\ anns[k].Start <= anns[k].End
        /\ anns[k].End <= Len(src)

\* C4: every run opened during the scan is closed and emitted before the
\* scan finishes: when the scan ends both cursors are unset.
C4_RunsClosedAtEnd ==
    ScanFinished => lastDel = -1 /\ lastIns = -1

\* C5: no background annotation covers a byte of a line whose first byte is
\* neither '+' nor '-'; in particular none spans a '@' header line.
C5_ContextUncovered ==
    \A k \in BackgroundAnns : \A o \in 0..(Len(src) - 1) :
        Covers(anns[k], o) => IsMarked(LineOf(o))

\* C5 witness: a block with a non-empty background was closed by a '@'
\* header line, which has bytes of its own.
C5_Witness ==
    /\ ScanFinished
    /\ \E k \in Blocks :
          /\ anns[k].Start < anns[k].End
          /\ TermByte(k) = "@"
          /\ anns[k + 1].End < Len(src)

----------------------------------------------------------------------------
(* Runs of marked lines, read from the bytes of src *)

\* p..q is a maximal run of marked lines followed by its terminator: every
\* line from p up to q is marked, the line at q is not, and the line before
\* p (if any) is not.
IsRun(p, q) ==
    /\ p < q
    /\ \A b \in LineStartSet : (p <= b /\ b < q) => IsMarked(b)
    /\ ~IsMarked(q)
    /\ p = 0 \/ ~IsMarked(LineOf(p - 1))

\* The run is k delete lines followed by m insert lines.
DeletesThenInserts(p, q) ==
    \A b \in LineStartSet : \A c \in LineStartSet :
        (p <= b /\ b < c /\ c < q) => ~(FirstByte(b) = "+" /\ FirstByte(c) = "-")

\* Where the insert lines of the run begin: q when there is none.
InsertsBegin(p, q) ==
    LET ins == {b \in LineStartSet : p <= b /\ b < q /\ FirstByte(b) = "+"}
    IN  IF ins = {} THEN q
        ELSE CHOOSE b \in ins : \A c \in ins : b <= c

Runs == {r \in LineStartSet \X LineStartSet :
            IsRun(r[1], r[2]) /\ DeletesThenInserts(r[1], r[2])}

\* The lines of block k, read from src.
BlockBegin(k) ==
    IF anns[k].Start <= anns[k + 1].Start THEN anns[k].Start ELSE anns[k + 1].Start

BlockLines(k) == {b \in LineStartSet : BlockBegin(k) <= b /\ b < anns[k + 1].End}
DelRun(k) == {b \in BlockLines(k) : FirstByte(b) = "-"}
InsRun(k) == {b \in BlockLines(k) : FirstByte(b) = "+"}

Least(S) == CHOOSE b \in S : \A c \in S : b <= c

C7_DifferOnlyNonDegenerate ==
    Scanning =>
        \A k \in Blocks :
            Cardinality(CallsFor(k))
                = (IF DelRun(k) # {} /\ InsRun(k) # {} THEN 1 ELSE 0)

\* C7 as amended: the differ is invoked exactly once for each emitted block
\* whose terminating line does not begin with '@', whether or not one of its
\* runs is empty, and never for a block whose terminating line begins with
\* '@'; there are no other invocations.
C7_DifferUnlessHeader ==
    Scanning =>
        /\ \A k \in Blocks :
              Cardinality(CallsFor(k)) = (IF TermByte(k) # "@" THEN 1 ELSE 0)
        /\ Len(calls) = Cardinality({k \in Blocks : TermByte(k) # "@"})

\* C7 witness: the differ was invoked for a block without insert lines.
C7_Witness ==
    /\ Scanning
    /\ \E k \in Blocks : DelRun(k) # {} /\ InsRun(k) = {} /\ CallsFor(k) # {}

\* C8: a block terminated by a '@' line has no differ invocation and no
\* intraline annotation inside it, and no line starting with '@' is part of
\* a content handed to the differ.
C8_HeaderBlocksBackgroundOnly ==
    Scanning =>
        /\ \A k \in Blocks :
              TermByte(k) = "@" =>
                 /\ CallsFor(k) = {}
                 /\ \A j \in 1..Len(anns) :
                       anns[j].Left = SEG =>
                          ~(anns[j].Start < anns[k + 1].End /\ anns[j].End > BlockBegin(k))
        /\ \A j \in 1..Len(calls) :
              /\ \A n \in 1..Len(calls[j].leftContent) :
                    calls[j].leftContent[n] = NUL => src[calls[j].offsets[1] + n] # "@"
              /\ \A n \in 1..Len(calls[j].rightContent) :
                    calls[j].rightContent[n] = NUL => src[calls[j].offsets[2] + n] # "@"

\* C8 witness: a block with delete and insert lines was closed by a '@' line.
C8_Witness ==
    /\ Scanning
    /\ \E k \in Blocks : TermByte(k) = "@" /\ DelRun(k) # {} /\ InsRun(k) # {}

\* C9: for every block handed to the differ the base offsets are the starts
\* of its first delete and first insert line, the content lengths are the
\* lengths of the background ranges, and every content byte that is not the
\* first byte of a line equals the text byte at base + position.
C9_ContentMatchesText ==
    Scanning =>
        \A k \in Blocks : \A j \in CallsFor(k) :
            LET c == calls[j]
            IN  /\ DelRun(k) # {} => c.offsets[1] = Least(DelRun(k))
                /\ InsRun(k) # {} => c.offsets[2] = Least(InsRun(k))
                /\ Len(c.leftContent) = anns[k].End - anns[k].Start
                /\ Len(c.rightContent) = anns[k + 1].End - anns[k + 1].Start
                /\ \A n \in 1..Len(c.leftContent) :
                      c.leftContent[n] # NUL => c.leftContent[n] = src[c.offsets[1] + n]
                /\ \A n \in 1..Len(c.rightContent) :
                      c.rightContent[n] # NUL => c.rightContent[n] = src[c.offsets[2] + n]

\* C10: highlightDiff returns either (output, no error) or (no output, the
\* error its annotation pass or its splicer reported), and fileDiff.Diff
\* returns an empty HTML string with that error.
C10_OutputOrError ==
    /\ (pc = "return" \/ (pc = "done" /\ diffErr # ErrPrintHunks)) =>
          /\ err = libErr
          /\ libErr # Nil => out = Nil
          /\ libErr = Nil => out # Nil
    /\ pc = "done" =>
          /\ diffErr # Nil => html = ""
          /\ diffErr # ErrPrintHunks => (diffErr = err /\ (err = Nil => html = out))

\* C10 witness: the splicer reported an error and fileDiff.Diff returned.
C10_Witness ==
    /\ pc = "done"
    /\ libErr = ErrSplice
    /\ out = Nil
    /\ html = ""
    /\ diffErr = ErrSplice

----------------------------------------------------------------------------
(* The annotation set as the claims read it *)

Range(a) == {o \in 0..Len(src) : a.Start <= o /\ o < a.End}

\* The ranges intersect and neither contains the other.
PartiallyOverlap(a, b) ==
    LET ra == Range(a)
        rb == Range(b)
    IN  /\ ra \cap rb # {}
        /\ ~(ra \subseteq rb)
        /\ ~(rb \subseteq ra)

\* Partial overlap is symmetric, so each pair is looked at once.
HasPartialOverlap ==
    \E k \in 1..Len(anns) : \E j \in (k + 1)..Len(anns) :
        PartiallyOverlap(anns[k], anns[j])

Returned == pc = "return" \/ pc = "done"

\* C11: when the collected annotations hold two that partially overlap,
\* highlightDiff returns no output and an error, and fileDiff.Diff an empty
\* string with that error; every accepted set has all pairs disjoint or
\* nested.
C11_PartialOverlapRejected ==
    Returned =>
        IF HasPartialOverlap
        THEN /\ out = Nil
             /\ err = ErrSplice
             /\ pc = "done" => (html = "" /\ diffErr = ErrSplice)
        ELSE TRUE

\* C11 witness: a set with two partially overlapping annotations went
\* through the splicer and was rejected.
C11_Witness ==
    /\ pc = "done"
    /\ HasPartialOverlap
    /\ diffErr = ErrSplice

\* The list has been sorted (it is empty when highlightDiff returned before
\* the scan).
AfterSort == pc \in {"splice", "return", "done"}

SpanLength(a) == a.End - a.Start

\* Start ascending and, for equal starts, span length descending.
OrderedForSplicer ==
    \A k \in 1..Len(anns) : \A j \in 1..Len(anns) :
        k < j =>
            \/ anns[k].Start < anns[j].Start
            \/ /\ anns[k].Start = anns[j].Start
               /\ SpanLength(anns[k]) >= SpanLength(anns[j])

\* C12 as claimed: the list handed to the splicer is ordered by start and
\* then by descending span length, and every background annotation precedes
\* every intraline annotation that starts at the same offset.
C12_BackgroundAlwaysFirst ==
    AfterSort =>
        /\ OrderedForSplicer
        /\ \A k \in BackgroundAnns : \A j \in 1..Len(anns) :
              (anns[j].Left = SEG /\ anns[j].Start = anns[k].Start) => k < j

\* C12 as amended: the list handed to the splicer is ordered by start and
\* then by descending span length, so every non-empty background annotation
\* precedes and encloses every intraline annotation that starts at the same
\* offset; an empty background follows the intraline annotations that start
\* at its offset.
C12_NonEmptyBackgroundFirst ==
    AfterSort =>
        /\ OrderedForSplicer
        /\ \A k \in BackgroundAnns : \A j \in 1..Len(anns) :
              (anns[j].Left = SEG /\ anns[j].Start = anns[k].Start) =>
                 IF anns[k].Start < anns[k].End
                 THEN k < j /\ anns[j].End <= anns[k].End
                 ELSE j < k

\* C12 witness: a sorted list in which an intraline annotation starts where
\* a non-empty background and an empty background start.
C12_Witness ==
    /\ AfterSort
    /\ \E k \in BackgroundAnns : \E e \in BackgroundAnns : \E j \in 1..Len(anns) :
          /\ anns[j].Left = SEG
          /\ anns[j].Start = anns[k].Start
          /\ anns[j].Start = anns[e].Start
          /\ anns[k].Start < anns[k].End
          /\ anns[e].Start = anns[e].End

----------------------------------------------------------------------------
(* The output as the claims read it *)

\* highlightDiff returned an output; buf holds its bytes.
Succeeded == Returned /\ out # Nil

OpenMarkups == {GD, GI, SEG}

\* Where annotation k is opened and where it is closed in the output.
OpeningsOf(k) == {n \in 1..Len(buf) : buf[n].a = k /\ buf[n].s \in OpenMarkups}
ClosingsOf(k) == {n \in 1..Len(buf) : buf[n].a = k /\ buf[n].s = RIGHT}

\* The output from token n on closes every markup it opens, innermost
\* first, given the annotations that are open before n (last opened first).
RECURSIVE WellNested(_, _)
WellNested(n, open) ==
    IF n > Len(buf) THEN open = <<>>
    ELSE IF buf[n].s \in OpenMarkups THEN WellNested(n + 1, <<buf[n].a>> \o open)
    ELSE IF buf[n].s = RIGHT
    THEN open # <<>> /\ Head(open) = buf[n].a /\ WellNested(n + 1, Tail(open))
    ELSE WellNested(n + 1, open)

\* C13: in the output of a successful call every opening markup has exactly
\* one closing markup after it, closings come in reverse order of their
\* openings, and nothing is left open at the end of the text.
C13_BalancedMarkup ==
    Succeeded =>
        /\ \A k \in 1..Len(anns) :
              Cardinality(OpeningsOf(k)) = 1 /\ Cardinality(ClosingsOf(k)) = 1
        /\ WellNested(1, <<>>)

\* C13 witness: a successful call wrote an intraline annotation that ends
\* where the background around it ends.
C13_Witness ==
    /\ Succeeded
    /\ \E k \in BackgroundAnns : \E j \in 1..Len(anns) :
          /\ anns[j].Left = SEG
          /\ anns[k].Start <= anns[j].Start
          /\ anns[j].End = anns[k].End
          /\ \E n \in ClosingsOf(j) : \E m \in ClosingsOf(k) : n < m

\* No intraline annotation was produced for the hunk.
NoIntraline == \A k \in 1..Len(anns) : anns[k].Left # SEG

IsMarkup(tok) == tok.s \in OpenMarkups \cup {RIGHT}
IsContent(tok) == ~IsMarkup(tok)

\* The output with every injected markup string removed.
Detagged == SelectSeq(buf, IsContent)

\* The inverse of HTML escaping on what is written for one byte.
Unescape(s) ==
    CASE s = "&lt;" -> "<"
      [] s = "&gt;" -> ">"
      [] s = "&amp;" -> "&"
      [] s = "&#39;" -> "'"
      [] s = "&#34;" -> "\""
      [] OTHER -> s

\* The bytes that HTML escaping must not let through as they are.
Unsafe == {"<", ">", "&", "'", "\""}

RecordStart(i) == lineStarts[i]
RecordEnd(i) == IF i < Len(lineStarts) THEN lineStarts[i + 1] ELSE Len(src)
RecordsOf(o) == {i \in 1..Len(lineStarts) : RecordStart(i) <= o /\ o < RecordEnd(i)}
Split_Done == pc \in {"scan", "splice", "return", "done"} /\ lineStarts # <<>>

\* C15: the line records start at offset 0, are contiguous and do not
\* overlap, and together cover the text exactly; each begins at offset 0
\* or just after a separator of the text.
C15_LineRecordsPartition ==
    Split_Done =>
        /\ RecordStart(1) = 0
        /\ \A i \in 1..Len(lineStarts) :
              RecordStart(i) <= RecordEnd(i) /\ RecordEnd(i) <= Len(src)
        /\ \A o \in 0..(Len(src) - 1) : Cardinality(RecordsOf(o)) = 1
        /\ {RecordStart(i) : i \in 1..Len(lineStarts)} = LineStartSet
        /\ Len(lineStarts) = Cardinality(LineStartSet)

\* C15 witness: a text of three lines or more, one of them empty and one not.
C15_Witness ==
    /\ Split_Done
    /\ Len(lineStarts) >= 3
    /\ \E i \in 1..Len(lineStarts) : RecordStart(i) < RecordEnd(i) - 1
    /\ \E i \in 1..(Len(lineStarts) - 1) : RecordEnd(i) = RecordStart(i) + 1

\* C16: both ends of every background annotation are line starts of the
\* text: offset 0 or the offset just after a separator.
C16_BackgroundsAtLineStarts ==
    \A k \in BackgroundAnns :
        /\ anns[k].Start \in 0..Len(src) /\ IsLineStart(anns[k].Start)
        /\ anns[k].End \in 0..Len(src) /\ IsLineStart(anns[k].End)

\* C16 witness: a non-empty background that begins after the first line and
\* ends before the end of the text.
C16_Witness ==
    \E k \in BackgroundAnns :
        0 < anns[k].Start /\ anns[k].Start < anns[k].End /\ anns[k].End < Len(src)

\* C17: the scan is total: it never panics on an index or a slice, and a
\* line of length 0 is a context line: after it both cursors are unset and
\* a block that was open ends at that line's start.
C17_ScanTotal ==
    /\ pc # "panic"
    /\ (Scanning /\ lineIndex >= 1 /\ lines[lineIndex] = <<>>) =>
          /\ lastDel = -1
          /\ lastIns = -1
          /\ (lineIndex >= 2 /\ IsMarked(lineStarts[lineIndex - 1])) =>
                \E k \in BackgroundAnns :
                    anns[k].Left = GI /\ anns[k].End = lineStarts[lineIndex]

\* C17 witness: the scan has just passed a line of length 0 that closed a
\* block whose lines were sliced for the differ.
C17_Witness ==
    /\ Scanning
    /\ lineIndex >= 2
    /\ lineIndex < Len(lines)
    /\ lines[lineIndex] = <<>>
    /\ IsMarked(lineStarts[lineIndex - 1])
    /\ calls # <<>>
    /\ calls[Len(calls)].offsets[2] <= lineStarts[lineIndex]

----------------------------------------------------------------------------
(* Claims about the HTTP handler, specification SpecHTTP *)

\* ServeHTTP has been called with a request.
Called == hpc # "idle"

\* The request carries a string under both context keys.
HasContext == req.repoSpec = "string" /\ req.baseURI = "string"

\* Nothing ran on behalf of the request.
NothingRan == target = NoTarget /\ hpc = "done" /\ svc = <<>> /\ ~wrote /\ filter = NoFilter

\* C18: when the request context lacks a string under RepoSpecContextKey or
\* under BaseURIContextKey, ServeHTTP returns an error and dispatches to no
\* page handler and no file server, whatever the path is.
C18_ContextChecked ==
    (Called /\ ~HasContext) => (ret.kind = "error" /\ NothingRan)

\* C18 witness: a request for a file server path whose base URI value is
\* not a string was turned away.
C18_Witness ==
    /\ Called
    /\ req.repoSpec = "string"
    /\ req.baseURI = "struct"
    /\ Len(req.path) >= 3
    /\ req.path[2] = "assets"
    /\ ret = ErrContextKey("BaseURIContextKey")

\* The elements of a path: what stands after each of its slashes.
RECURSIVE ElemsOf(_)
ElemsOf(p) ==
    IF p = <<>> THEN <<>>
    ELSE IF Len(p) >= 2 /\ p[2] # Slash
         THEN <<p[2]>> \o ElemsOf(SubSeq(p, 3, Len(p)))
         ELSE <<"">> \o ElemsOf(Tail(p))

\* The elements joined by slashes.
RECURSIVE Join(_)
Join(es) ==
    IF es = <<>> THEN <<>>
    ELSE (IF Head(es) = "" THEN <<>> ELSE <<Head(es)>>)
         \o (IF Len(es) > 1 THEN <<Slash>> \o Join(Tail(es)) ELSE <<>>)

\* An unsigned decimal that fits 64 bits.
IsChangeID(e) == e \in {"7", "007"}

\* The route the claim gives a path; NoTarget is the 404.  ListHandler is
\* the handler of "/", whatever the package calls it.
ExpectedTarget(path, mockRoute) ==
    LET e == ElemsOf(path)
        rest == Join(SubSeq(e, 3, Len(e)))
    IN  IF Len(e) >= 3 /\ e[1] = "assets" /\ e[2] = "gfm"
        THEN Dispatch("gfmFileServer", <<Slash>> \o rest, "", <<>>)
        ELSE IF e = <<"assets", "script.js">>
        THEN Dispatch("assetsFileServer", <<Slash, "script.js">>, "", <<>>)
        ELSE IF Len(e) >= 2 /\ e[1] = "assets"
        THEN Dispatch("assetsFileServer", path, "", <<>>)
        ELSE IF e = <<"">> THEN Dispatch("ListHandler", path, "", <<>>)
        ELSE IF mockRoute /\ e = <<"mock">> THEN Dispatch("MockHandler", path, "", <<>>)
        ELSE IF ~IsChangeID(e[1]) THEN NoTarget
        ELSE IF Len(e) = 1 THEN Dispatch("ChangeHandler", path, "7", <<>>)
        ELSE IF Len(e) = 2 /\ e[2] = "commits"
        THEN Dispatch("ChangeCommitsHandler", path, "7", <<>>)
        ELSE IF Len(e) = 2 /\ e[2] = "files"
        THEN Dispatch("ChangeFilesHandler", path, "7", <<>>)
        ELSE IF Len(e) >= 3 /\ e[2] = "files"
        THEN Dispatch("ChangeFilesHandler", path, "7", rest)
        ELSE NoTarget

ListHandlers == {"ChangesHandler", "IssuesHandler"}

\* The request went where x says, and nowhere on a 404.
RoutedTo(x) ==
    /\ IF x.name = "ListHandler" THEN target.name \in ListHandlers
       ELSE target.name = x.name
    /\ target.path = x.path
    /\ target.changeID = x.changeID
    /\ target.commitID = x.commitID
    /\ x = NoTarget => (ret.kind = "HTTP 404" /\ NothingRan)
    /\ x # NoTarget => (ret.kind # "HTTP 404" /\ hpc \in {target.name, "done"})

\* C19 as stated: one target per request in the precedence of the claim,
\* "/mock" going to MockHandler.
C19_RoutingPrecedence ==
    (Called /\ HasContext) => RoutedTo(ExpectedTarget(req.path, TRUE))

\* C19: one target per request in the precedence gfm files, script.js,
\* other assets, "/", "/mock", then the change ID routes, and a 404 with no
\* handler run for anything else; "/mock" is a route of package changes
\* only, package changesapp answers it with the 404 of a non-numeric ID.
C19_RoutingByPackage ==
    (Called /\ HasContext) =>
        RoutedTo(ExpectedTarget(req.path, req.pkg = "changes"))

\* C19 witness: package changesapp answered "/mock" with a 404.
C19_Witness ==
    /\ Called
    /\ HasContext
    /\ req.pkg = "changesapp"
    /\ req.path = <<Slash, "mock">>
    /\ ret = NotFound("invalid change ID")
    /\ NothingRan

\* ChangesHandler has returned after evaluating stateFilter.
FilterParsed == hpc = "done" /\ target.name = "ChangesHandler" /\ filter # NoFilter

\* The value of the "state" key the request carries.
StateValue == IF Len(req.query) = 0 THEN "" ELSE Head(req.query)

ChangeServiceCalled == \E k \in 1..Len(svc) : svc[k].service = "change"

\* C20: stateFilter maps "" to the open filter, "closed" to closed/merged
\* and "all" to all, and fails on any other value; ChangesHandler then
\* returns BadRequest with no List or Count call and nothing written, and
\* otherwise lists with the filter it parsed.
C20_StateFilter ==
    FilterParsed =>
        /\ StateValue = "" => filter = [filter |-> FilterOpen, err |-> Nil]
        /\ StateValue = "closed" => filter = [filter |-> FilterClosedMerged, err |-> Nil]
        /\ StateValue = "all" => filter = [filter |-> FilterAll, err |-> Nil]
        /\ StateValue \notin {"", "closed", "all"} =>
              /\ filter.err # Nil
              /\ ret.kind = "BadRequest"
              /\ ~ChangeServiceCalled
              /\ ~wrote
        /\ filter.err = Nil =>
              \E k \in 1..Len(svc) : svc[k] = List(filter.filter)

\* C20 witness: a GET of "/" with an unsupported state value came back as
\* BadRequest after the user was looked up.
C20_Witness ==
    /\ FilterParsed
    /\ req.method = "GET"
    /\ req.query = <<"open", "closed">>
    /\ ret.kind = "BadRequest"
    /\ svc = <<GetAuthenticated>>

\* ChangeHandler has run for the request.
ChangeRan == page.handler = "ChangeHandler"

\* The items of a list, and how often an item occurs in it.
ItemsOf(s) == {s[n] : n \in 1..Len(s)}
Occurrences(s, i) == Cardinality({n \in 1..Len(s) : s[n] = i})

\* a may stand directly before b: earlier, or at the same time with no
\* greater ID.
InOrder(a, b) ==
    \/ a.CreatedAt < b.CreatedAt
    \/ a.CreatedAt = b.CreatedAt /\ a.ID <= b.ID

Incomparable(a, b) == ~Less(a, b) /\ ~Less(b, a)

\* C22: Less is a strict weak order, by CreatedAt ascending and then by ID
\* ascending; the timeline ChangeHandler sorted has every adjacent pair in
\* that order and is a permutation of the items listed.
C22_TimelineSorted ==
    ChangeRan =>
        /\ \A a \in ItemsOf(page.listed) : \A b \in ItemsOf(page.listed) :
              /\ ~Less(a, a)
              /\ Less(a, b) <=>
                    \/ a.CreatedAt < b.CreatedAt
                    \/ a.CreatedAt = b.CreatedAt /\ a.ID < b.ID
              /\ \A c \in ItemsOf(page.listed) :
                    /\ (Less(a, b) /\ Less(b, c)) => Less(a, c)
                    /\ (Incomparable(a, b) /\ Incomparable(b, c)) => Incomparable(a, c)
        /\ \A n \in 1..(Len(page.timeline) - 1) :
              InOrder(page.timeline[n], page.timeline[n + 1])
        /\ Len(page.timeline) = Len(page.listed)
        /\ \A i \in ItemsOf(page.listed) :
              Occurrences(page.timeline, i) = Occurrences(page.listed, i)

\* C22 witness: three items were listed, the first two at the same time
\* with IDs in descending order and the third earlier, and were sorted.
C22_Witness ==
    /\ ChangeRan
    /\ Len(page.listed) = 3
    /\ page.listed[1].CreatedAt = page.listed[2].CreatedAt
    /\ page.listed[1].ID > page.listed[2].ID
    /\ page.listed[3].CreatedAt < page.listed[1].CreatedAt
    /\ page.timeline = <<page.listed[3], page.listed[2], page.listed[1]>>

\* Where in the calls of the request a call stands.
CallsOf(c) == {n \in 1..Len(svc) : svc[n] = c}

\* C26: in ChangeHandler MarkRead is called at most once, only after Get
\* and ListTimeline have both succeeded, and only with Notifications set, a
\* change service that has ThreadType and a non-zero user ID; when MarkRead
\* fails the error is not returned and the page is rendered as without it.
C26_MarkRead ==
    ChangeRan =>
        /\ Cardinality(CallsOf(MarkRead)) <= 1
        /\ \A n \in CallsOf(MarkRead) :
              /\ \E i \in CallsOf(Get_) : \E j \in CallsOf(ListTimeline) : i < j /\ j < n
              /\ ret.detail \notin {"Get", "changes.ListTimeline"}
              /\ page.config.notifications
              /\ page.config.threadType
              /\ ~page.config.usersNil
              /\ page.config.userID # 0
        /\ page.markReadErr # Nil =>
              /\ CallsOf(MarkRead) # {}
              /\ \/ ret = NoError /\ wrote
                 \/ ret.detail \in {"loadTemplates", "t.ExecuteTemplate"}

\* C26 witness: MarkRead was called once, failed, and the page was
\* rendered with no error returned.
C26_Witness ==
    /\ ChangeRan
    /\ Cardinality(CallsOf(MarkRead)) = 1
    /\ page.markReadErr # Nil
    /\ ret = NoError
    /\ wrote
    /\ Len(page.timeline) >= 1

FilesRan == hpc = "done" /\ target.name = "ChangeFilesHandler"

\* ChangeFilesHandler was asked for one commit and ListCommits answered
\* without error, so that commitIndex was called.
Indexed ==
    /\ FilesRan
    /\ target.commitID # <<>>
    /\ CallsOf(ListCommits) # {}
    /\ ret # Error("error", "ListCommits")

\* The positions, from 1, of the listed commits whose SHA is the commit ID.
Matches == {k \in 1..Len(page.commits) : page.commits[k].SHA = target.commitID}

FirstMatch == CHOOSE k \in Matches : \A m \in Matches : k <= m

\* C24: commitIndex returns the index of the first commit whose SHA is
\* commitID, or -1 if there is none.  In ChangeFilesHandler with a non-empty
\* commitID, -1 makes the handler return os.ErrNotExist with no GetDiff call
\* and nothing written; otherwise PrevSHA is the SHA of the commit just
\* before the match, empty if the match is the first commit, and NextSHA the
\* SHA of the commit just after it, empty if the match is the last.
C24_CommitIndex ==
    Indexed =>
        IF Matches = {}
        THEN /\ page.index = -1
             /\ ret = ErrNotExist
             /\ CallsOf(GetDiff) = {}
             /\ ~wrote
        ELSE /\ page.index = FirstMatch - 1
             /\ page.CommitHash = target.commitID
             /\ page.PrevSHA = IF FirstMatch = 1 THEN <<>>
                               ELSE page.commits[FirstMatch - 1].SHA
             /\ page.NextSHA = IF FirstMatch = Len(page.commits) THEN <<>>
                               ELSE page.commits[FirstMatch + 1].SHA

\* The commit asked for is the second and the third of three listed, after
\* a different one.
C24_Witness ==
    /\ Indexed
    /\ Len(page.commits) = 3
    /\ Matches = {2, 3}
    /\ page.index = 1
    /\ page.PrevSHA # target.commitID
    /\ page.NextSHA = target.commitID
    /\ CallsOf(GetDiff) # {}

PageHandlers ==
    {"ChangesHandler", "MockHandler", "ChangeHandler", "ChangeCommitsHandler",
     "ChangeFilesHandler"}

PageRan == hpc = "done" /\ target.name \in PageHandlers

\* C25: each of ChangesHandler, MockHandler, ChangeHandler,
\* ChangeCommitsHandler and ChangeFilesHandler answers a request whose
\* method is not GET with a method-not-allowed error that allows GET only,
\* and has then called no service and written nothing to the response.
C25_MethodChecked ==
    (PageRan /\ req.method # "GET") =>
        /\ ret = MethodNotAllowed
        /\ svc = <<>>
        /\ ~wrote
        /\ filter = NoFilter

\* A POST for the files of one commit.
C25_Witness ==
    /\ PageRan
    /\ target.name = "ChangeFilesHandler"
    /\ target.commitID # <<>>
    /\ req.method = "POST"
    /\ ret = MethodNotAllowed

----------------------------------------------------------------------------
(* Claims about stripPrefix, specification SpecStrip *)

\* The path without its first n bytes.
Without(path, n) == [i \in 1..(Len(path) - n) |-> path[i + n]]

\* The path of the request at address a.
PathAt(a) == heap[heap[a].URL].Path

\* C21: for prefixLen <= len(r.URL.Path), stripPrefix returns a new request
\* whose path is the old path without its first prefixLen bytes, or "/"
\* when nothing is left, and the request r and its URL are as they were.
C21_StripPrefix ==
    /\ strip.pc = "panic" => strip.prefixLen > Len(strip.path)
    /\ strip.pc = "returned" =>
          /\ strip.prefixLen <= Len(strip.path)
          /\ strip.r2 # strip.r
          /\ heap[strip.r2].URL # heap[strip.r].URL
          /\ PathAt(strip.r2) = IF Without(strip.path, strip.prefixLen) = <<>>
                                THEN <<"/">>
                                ELSE Without(strip.path, strip.prefixLen)
          /\ heap[strip.r] = RequestAt("u")
          /\ heap["u"] = URLAt(strip.path)

\* C21 witness: a call that stripped a whole non-empty path and returned "/"
\* where the old path was something else.
C21_Witness ==
    /\ strip.pc = "returned"
    /\ strip.prefixLen = Len(strip.path)
    /\ strip.prefixLen >= 2
    /\ PathAt(strip.r2) = <<"/">>
    /\ PathAt(strip.r) # <<"/">>

(***************************************************************************)
(* Claims about augmentUnread, specification SpecUnread *)
(***************************************************************************)

UnreadReturned == hpc = "done" /\ page.handler = "augmentUnread"

\* The notification listing was made and answered without error.
Listed == CallsOf(ListNotes) # {} /\ page.listErr = Nil

\* Some listed notification is of the service's thread type and about the
\* change of the entry.
Notified(e) ==
    \E n \in 1..Len(page.ns) :
        page.ns[n].ThreadType = ServiceThreadType /\ page.ns[n].ThreadID = e.ID

\* C23: augmentUnread returns as many entries as it was given, for the same
\* changes in the same order.  When the change service has ThreadType, the
\* current user's ID is not 0 and the notifications are listed without
\* error, an entry is unread exactly when a listed notification has the
\* service's thread type and the entry's change ID as its thread ID; in
\* every other case the entries come back as they were given.
C23_AugmentUnread ==
    UnreadReturned =>
        /\ Len(page.out) = Len(page.es)
        /\ \A i \in 1..Len(page.es) : page.out[i].ID = page.es[i].ID
        /\ IF page.config.threadType /\ CurrentUserID(page.config) # 0 /\ Listed
           THEN \A i \in 1..Len(page.es) :
                    page.out[i].Unread <=> Notified(page.es[i])
           ELSE page.out = page.es

\* Two entries change their flags, one each way, and a notification of
\* another thread type is about the entry that becomes read.
C23_Witness ==
    /\ UnreadReturned
    /\ page.config.threadType /\ CurrentUserID(page.config) # 0 /\ Listed
    /\ Len(page.es) = 2
    /\ ~page.es[1].Unread /\ page.out[1].Unread
    /\ page.es[2].Unread /\ ~page.out[2].Unread
    /\ \E n \in 1..Len(page.ns) :
          page.ns[n].ThreadType # ServiceThreadType
              /\ page.ns[n].ThreadID = page.es[2].ID

====
